---- MODULE Spec2Model ----
(***************************************************************************)
(* The API gateway of simonMarcotte/apigateway: the Redis token-bucket     *)
(* rate limiter (app/middleware/rate_limit.py), its middleware, and the    *)
(* middleware pipeline assembled in app/main.py.                           *)
(*                                                                         *)
(* Time is counted in ticks, TicksPerSecond of them to the second.  Token  *)
(* counts are Python floats in the code; here they are exact rationals,    *)
(* kept as integers in units of 1/TokenUnit token, TokenUnit being the     *)
(* number of ticks in one window, so that one tick refills exactly         *)
(* max_tokens units.                                                       *)
(***************************************************************************)
EXTENDS Integers, Sequences, FiniteSets, TLC

\* ---------------------------------------------------------------- bounds
TicksPerSecond == 3
MaxTime == 2
MaxCalls == 4
MaxSeqTime == 9
MaxSeqCalls == 4
MaxIsoCalls == 4
MaxIsoTime == 1
MaxCacheTime == 3
MaxTenantCalls == 3
MaxHandles == 3
MaxConnCalls == 5
MaxRaceCalls == 3

\* ------------------------------------------------------ program constants
\* RedisRateLimiter(2, window_size_seconds=1), as the refill test builds it.
rate_limit_per_minute == 2
window_size_seconds == 1
max_retries == 3
\* CacheMiddleware(cache_ttl=1), as the expiry test builds it.
CACHE_TTL == 1
\* app/config.py
RATE_LIMIT_ENABLED == TRUE
CACHE_ENABLED == TRUE

Procs == {"p1", "p2"}
Users == {"a"}
Hosts == {"h"}
\* Client identities: f"user:{sub}" and f"ip:{address}".
Clients == { <<"user", u>> : u \in Users }
IpClients == { <<"ip", h>> : h \in Hosts }
\* "Z" is a limiter constructed with rate_limit_per_minute = 0.
Instances == {"A", "B", "Z"}

\* Each worker is a gateway replica holding its own RedisRateLimiter.
InstanceOf(p) == IF p = "p1" THEN "A" ELSE "B"

VARIABLES
    clock,      \* wall-clock time, in ticks
    store,      \* the shared key-value store: key -> hash record with its expiry
    pc,         \* per worker: where it is in is_rate_limited
    call,       \* per worker: the locals of its running is_rate_limited call
    hist,       \* the calls that have returned, in the order they returned
    req,        \* per worker: the request it is serving and its response
    cache,      \* the response cache kept in the shared store
    conn        \* RedisConnection: its _instance and the handles it made

vars == <<clock, store, pc, call, hist, req, cache, conn>>

\* RedisConnection before its first call: _instance is None (0 here), no
\* handle was constructed, none was closed, none has answered a ping.
\* Handles are told by number.  held is self.redis_client of the
\* components that keep one (0 while the component is not constructed).
Components == {"RedisRateLimiter", "ResponseCache"}

NoConnection ==
    [ instance |-> 0, made |-> 0, closed |-> {}, probed |-> {},
      held |-> [c \in Components |-> 0] ]

\* The part of the state the limiter leaves alone.
gw == <<req, cache>>

\* ------------------------------------------------------------- the limiter

\* RedisRateLimiter.__init__: the fields of a limiter instance.  refill_rate
\* is max_tokens / window_size tokens per second, which is max_tokens units
\* per tick.
Limiter(inst) ==
    [ max_tokens |-> IF inst = "Z" THEN 0 ELSE rate_limit_per_minute,
      refill_rate |-> IF inst = "Z" THEN 0 ELSE rate_limit_per_minute,
      window_size |-> window_size_seconds * TicksPerSecond ]

TokenUnit == window_size_seconds * TicksPerSecond

\* One key for every client.
KeyShared(self, client_id) == <<"rate_limit", <<"user", "a">>>>

\* A key of the instance's own.
KeyPerInstance(self, client_id) == <<"rate_limit", self, client_id>>

\* key = f"rate_limit:{client_id}"
Key(self, client_id) == <<"rate_limit", client_id>>

\* The subjects tokens are issued to, and the first hops that
\* X-Forwarded-For names.
Subjects == Users \cup {"b"}
Forwarders == {"f"}

Keys ==
    { Key(i, c) : i \in Instances,
                  c \in Clients \cup IpClients
                       \cup { <<"user", u>> : u \in Subjects }
                       \cup { <<"ip", f>> : f \in Forwarders } }

\* A record that lives one tick.
TtlOneTick(self) == 1

\* ttl = self.window_size * 3
Ttl(self) == Limiter(self).window_size * 3

NoRecord == [present |-> FALSE, tokens |-> 0, last_refill |-> 0, expire_at |-> 0]

\* A key whose time to live has run out is gone for every reader.
Live(rec, t) == rec.present /\ rec.expire_at > t

\* pipe.hmget(key, 'tokens', 'last_refill') on a record as it is at time t:
\* None for the fields of a missing key.
Fields(rec, t) ==
    IF Live(rec, t)
    THEN [found |-> TRUE, tokens |-> rec.tokens, last_refill |-> rec.last_refill]
    ELSE [found |-> FALSE, tokens |-> 0, last_refill |-> 0]

Hmget(key) == Fields(store[key], clock)

Min(a, b) == IF a <= b THEN a ELSE b

\* A refill that forgets the time elapsed.
RefillStale(self, bucket_data, now) ==
    IF bucket_data.found THEN bucket_data.tokens
    ELSE Limiter(self).max_tokens * TokenUnit

\* Lines 58-64: the refilled token count, in units.
Refill(self, bucket_data, now) ==
    LET tokens == IF bucket_data.found THEN bucket_data.tokens
                  ELSE Limiter(self).max_tokens * TokenUnit
        last_refill == IF bucket_data.found THEN bucket_data.last_refill ELSE now
        time_elapsed == now - last_refill
        tokens_to_add == time_elapsed * Limiter(self).refill_rate
    IN  Min(Limiter(self).max_tokens * TokenUnit, tokens + tokens_to_add)

\* Limited with one token left.
IsLimitedAtOne(tokens) == tokens <= TokenUnit

\* is_limited = tokens < 1
IsLimited(tokens) == tokens < TokenUnit

\* A token is taken from every call.
ConsumeAlways(tokens) == tokens - TokenUnit

\* Lines 70-71: a token is consumed only when not limited.
Consume(tokens) == IF ~IsLimited(tokens) THEN tokens - TokenUnit ELSE tokens

\* int(tokens): Python truncates towards zero.
PyInt(tokens) ==
    IF tokens >= 0 THEN tokens \div TokenUnit ELSE -((-tokens) \div TokenUnit)

NoResult == [limited |-> FALSE, remaining |-> 0, via |-> "none"]

IdleCall ==
    [ inst |-> "A", client |-> <<"user", "a">>, now |-> 0, attempt |-> 0,
      dirty |-> FALSE, tokens |-> 0, is_limited |-> FALSE, ret |-> "idle",
      result |-> NoResult, stored |-> 0 ]

\* The X-RateLimit-* headers; set tells whether they are there.
NoHeaders == [set |-> FALSE, limit |-> 0, remaining |-> 0, reset |-> 0]

Methods == {"GET"}
Paths == {"/health", "/api"}
\* The Authorization header of a request: none or not a Bearer one, a
\* Bearer token that verifies, one that has expired, one that does not
\* verify.
Authorizations == {"missing", "valid", "expired", "invalid"}
\* More of them: a header that does not start with "Bearer ", a token
\* that verifies for another subject, one that verifies and has no sub,
\* and one on which jwt.decode fails unexpectedly.
AllAuthorizations == Authorizations \cup {"basic", "other", "nosub", "crash"}
\* The origin answers, or the connection to it fails; it may answer with
\* another body than before, or with headers named like the gateway's own.
\* It may also answer with an error status of its own, or forbid caching.
Origins == {"up", "down", "changed", "dressed", "error", "nostore"}

\* Headers are name-value pairs, the names in the letter case they were
\* given in.  str.lower() on the names that occur:
Lower(name) ==
    CASE name = "X-Cache" -> "x-cache"
      [] name = "X-CACHE" -> "x-cache"
      [] name = "X-Process-Time" -> "x-process-time"
      [] name = "X-Cache-TTL" -> "x-cache-ttl"
      [] name = "Content-Type" -> "content-type"
      [] name = "Cache-Control" -> "cache-control"
      [] name = "Content-Encoding" -> "content-encoding"
      [] OTHER -> name

\* Response(headers=...): Starlette keeps every name in lower case.
ResponseHeaders(headers) == { <<Lower(h[1]), h[2]>> : h \in headers }

\* response.headers[name] = value: the header of that name, whatever its
\* letter case, is replaced.
SetHeader(headers, name, value) ==
    { h \in headers : Lower(h[1]) # Lower(name) } \cup { <<Lower(name), value>> }

\* d[name] = value on a plain dict: the key of that very spelling is
\* replaced.
DictSet(headers, name, value) ==
    { h \in headers : h[1] # name } \cup { <<name, value>> }

\* The names the gateway puts on its responses itself, in lower case.
InjectedNames == {"x-cache", "x-process-time", "x-cache-ttl"}

\* Nothing is taken out.
HeadersKept(headers) == headers

\* The loop of cache.py lines 69-73 and 103-107: the headers without the
\* gateway's own, whatever the letter case of the names.
CleanHeaders(headers) == { h \in headers : Lower(h[1]) \notin InjectedNames }

JsonHeaders == { <<"content-type", "application/json">> }

\* What the origin sends.
\* More of them for the proxy handler alone: an origin that does not
\* answer in time, and one that compresses its answer.
ProxyOrigins == Origins \cup {"timeout", "gzip"}

\* The calls that raise an httpx.HTTPError.
TransportFailures == {"down", "timeout"}

OriginStatus(o) == IF o = "error" THEN 500 ELSE 200

\* The body the origin puts on the wire.
WireBody(o) ==
    CASE o = "changed" -> "origin2"
      [] o = "error" -> "origin error"
      [] o = "gzip" -> "gzip(origin)"
      [] OTHER -> "origin"

\* upstream.content: the body with its content encoding undone.
OriginBody(o) == IF o = "gzip" THEN "origin" ELSE WireBody(o)
OriginHeaders(o) ==
    CASE o = "dressed" ->
           { <<"Content-Type", "text/plain">>, <<"X-CACHE", "MISS">>,
             <<"X-Process-Time", "9">> }
      [] o = "nostore" ->
           { <<"Content-Type", "text/plain">>,
             <<"Cache-Control", "private, no-store">> }
      [] o = "gzip" ->
           { <<"Content-Type", "text/plain">>, <<"Content-Encoding", "gzip">> }
      [] OTHER -> { <<"Content-Type", "text/plain">> }

\* response.headers.get(name, default): the value under that name,
\* whatever its letter case.
HeaderGet(headers, name, default) ==
    LET found == { h \in headers : Lower(h[1]) = Lower(name) }
    IN  IF found = {} THEN default ELSE (CHOOSE h \in found : TRUE)[2]

\* word in value, for the values that occur.
HasWord(value, word) ==
    CASE value = "private, no-store" -> word \in {"private", "no-store"}
      [] value = "no-cache" -> word = "no-cache"
      [] OTHER -> FALSE

\* A request on its way through the pipeline, and its response on the way
\* back.  pos is the place in the stack of the middleware that has it; seen
\* lists who received the request and left who handed back the response, in
\* the order they did.  via, limited and stored note how the limiter decided
\* and what the bucket held when it did; origin whether the origin was
\* called, sent what it answered.  stack is the application's middleware stack; hdrs the headers
\* of the response other than the X-RateLimit ones; read tells whether the
\* store was asked for an entry ("hit", "miss", "error", else "none") and
\* write whether it was given one ("stored", "error", else "none");
\* keys_deleted is the count in the body of clear_cache's answer.
NoRequest ==
    [ phase |-> "none", method |-> "GET", path |-> "/health",
      authorization |-> "missing", forwarded_for |-> "none", host |-> "h",
      user |-> "none", stack |-> <<>>, pos |-> 0, seen |-> <<>>, left |-> <<>>,
      status |-> 0, detail |-> "", headers |-> NoHeaders,
      x_rate |-> NoHeaders, hdrs |-> {},
      via |-> "none", limited |-> FALSE, stored |-> 0, origin |-> FALSE,
      sent |-> "none",
      read |-> "none", write |-> "none", keys_deleted |-> 0 ]

\* The requests served one at a time: the health check, the flush, and
\* the origin's own paths.
ServeEndpoints ==
    { <<"GET", "/health">>, <<"POST", "/health">>, <<"GET", "/api">>,
      <<"POST", "/api">>, <<"DELETE", "/admin/cache">> }

\* ResponseCache._generate_cache_key: method, path and the caller's
\* identity (the query string is empty here).
\* One user context for every caller.
CacheIdentityShared(r) == <<"anonymous">>

\* The caller by the address of its connection when it has no subject.
CacheIdentityByAddress(r) ==
    IF r.user \notin {"none", "nosub"} THEN <<"user", r.user>>
    ELSE <<"ip", r.host>>

\* The user context of _generate_cache_key.
CacheIdentity(r) ==
    IF r.user # "none"
    THEN <<"user", IF r.user = "nosub" THEN "anonymous" ELSE r.user>>
    ELSE <<"anonymous">>

CacheKey(r) == <<"cache", r.method, r.path, CacheIdentity(r)>>

CacheKeys ==
    { CacheKey([NoRequest EXCEPT !.method = e[1], !.path = e[2], !.user = u]) :
        e \in (Methods \X Paths) \cup ServeEndpoints,
        u \in Subjects \cup {"none", "nosub"} }

NoEntry ==
    [ present |-> FALSE, expire_at |-> 0, status |-> 0, detail |-> "",
      x_rate |-> NoHeaders, hdrs |-> {} ]

Init ==
    /\ clock = 0
    /\ store = [k \in Keys |-> NoRecord]
    /\ pc = [p \in Procs |-> "idle"]
    /\ call = [p \in Procs |-> IdleCall]
    /\ hist = <<>>
    /\ req = [p \in Procs |-> NoRequest]
    /\ cache = [k \in CacheKeys |-> NoEntry]
    /\ conn = NoConnection

\* is_rate_limited is entered: now = time.time() (line 40).  ret is where
\* the caller goes on when the call returns.
Enter(p, client_id, ret) ==
    /\ call' = [call EXCEPT ![p] = [IdleCall EXCEPT !.inst = InstanceOf(p),
                                       !.client = client_id, !.now = clock,
                                       !.ret = ret]]
    /\ pc' = [pc EXCEPT ![p] = "watch"]

\* pipe.watch(key) (line 52).
Watch(p) ==
    /\ pc[p] = "watch"
    /\ call' = [call EXCEPT ![p].dirty = FALSE]
    /\ pc' = [pc EXCEPT ![p] = "read"]
    /\ UNCHANGED <<conn, clock, store, hist, gw>>

\* Lines 55-71: read the bucket, refill, decide, consume.
Read(p) ==
    /\ pc[p] = "read"
    /\ LET self == call[p].inst
           tokens == Refill(self, Hmget(Key(self, call[p].client)), call[p].now)
       IN  call' = [call EXCEPT ![p].is_limited = IsLimited(tokens),
                                ![p].tokens = Consume(tokens)]
    /\ pc' = [pc EXCEPT ![p] = "exec"]
    /\ UNCHANGED <<conn, clock, store, hist, gw>>

\* Lines 86-87: return is_limited, int(tokens).
Decision(p) ==
    [ limited |-> call[p].is_limited, remaining |-> PyInt(call[p].tokens),
      via |-> "commit" ]

\* A fallback that rejects.
FailClosed(p, via) == [limited |-> TRUE, remaining |-> 0, via |-> via]

\* Lines 95 and 103: return False, self.max_tokens.
FailOpen(p, via) ==
    [ limited |-> FALSE, remaining |-> Limiter(call[p].inst).max_tokens,
      via |-> via ]

\* What the caller of a returned call keeps of it.
Outcome(p, res) ==
    [ client |-> call[p].client, now |-> call[p].now, via |-> res.via,
      limited |-> res.limited, remaining |-> res.remaining,
      attempts |-> call[p].attempt + 1 ]

\* The token count of a bucket record as a reader finds it at time t: a
\* missing record stands for a full bucket (line 58).
StoredTokens(self, rec, t) ==
    IF Live(rec, t) THEN rec.tokens ELSE Limiter(self).max_tokens * TokenUnit

\* What is left of a call that has returned res to a caller that goes on
\* with it: the result and, for the record, the token count the call wrote
\* and the one the store holds for the client at the return.
Returned(p, res) ==
    [IdleCall EXCEPT
       !.inst = call[p].inst, !.client = call[p].client, !.now = call[p].now,
       !.ret = call[p].ret, !.result = res,
       !.tokens = IF res.via = "commit" THEN call[p].tokens ELSE 0,
       !.stored = StoredTokens(call[p].inst,
                               store'[Key(call[p].inst, call[p].client)], clock)]

\* The call of p returns res: a direct caller notes the outcome at once, the
\* middleware goes on in dispatch with the result at hand.
Finish(p, res, others) ==
    /\ pc' = [pc EXCEPT ![p] = call[p].ret]
    /\ call' = [others EXCEPT ![p] =
                  IF call[p].ret = "idle" THEN IdleCall ELSE Returned(p, res)]
    /\ hist' = IF call[p].ret = "idle" THEN Append(hist, Outcome(p, res))
               ELSE hist

\* Lines 74-87: MULTI, HSET, EXPIRE, EXEC.  The transaction commits when the
\* watched key was not modified since WATCH; every other transaction that
\* watches the key is then bound to abort.
Commit(p) ==
    LET self == call[p].inst
        key == Key(self, call[p].client)
    IN  store' = [store EXCEPT ![key] =
                    [present |-> TRUE, tokens |-> call[p].tokens,
                     last_refill |-> call[p].now,
                     expire_at |-> clock + Ttl(self)]]

\* A commit that aborts nobody.
NotInvalidated(p) == call

Invalidated(p) ==
    [q \in Procs |->
       IF q # p /\ pc[q] \in {"read", "exec"}
          /\ Key(call[q].inst, call[q].client) = Key(call[p].inst, call[p].client)
       THEN [call[q] EXCEPT !.dirty = TRUE]
       ELSE call[q]]

Execute(p) ==
    /\ pc[p] = "exec"
    /\ ~call[p].dirty
    /\ Commit(p)
    /\ Finish(p, Decision(p), Invalidated(p))
    /\ UNCHANGED <<conn, clock, gw>>

\* A retry without a last attempt.
WatchErrorRetryAlways(p) ==
    /\ pc[p] = "exec"
    /\ call[p].dirty
    /\ call' = [call EXCEPT ![p].attempt = @ + 1, ![p].dirty = FALSE,
                             ![p].tokens = 0, ![p].is_limited = FALSE]
    /\ pc' = [pc EXCEPT ![p] = "watch"]
    /\ UNCHANGED <<conn, clock, store, hist, gw>>

\* Lines 89-98: redis.WatchError before the last attempt: the pipeline is
\* reset and the loop goes round again, to assign its locals anew.
WatchErrorRetry(p) ==
    /\ pc[p] = "exec"
    /\ call[p].dirty
    /\ call[p].attempt # max_retries - 1
    /\ call' = [call EXCEPT ![p].attempt = @ + 1, ![p].dirty = FALSE,
                             ![p].tokens = 0, ![p].is_limited = FALSE]
    /\ pc' = [pc EXCEPT ![p] = "watch"]
    /\ UNCHANGED <<conn, clock, store, hist, gw>>

\* Lines 92-95: redis.WatchError on the last attempt: fall back.
WatchErrorFallback(p) ==
    /\ pc[p] = "exec"
    /\ call[p].dirty
    /\ call[p].attempt = max_retries - 1
    /\ UNCHANGED <<conn, clock, store, gw>>
    /\ Finish(p, FailOpen(p, "conflict"), call)

\* Lines 100-103: any other exception of a store operation: fall back.
StoreError(p) ==
    /\ pc[p] \in {"watch", "read", "exec"}
    /\ UNCHANGED <<conn, clock, store, gw>>
    /\ Finish(p, FailOpen(p, "error"), call)

\* ------------------------------------------- callers of the limiter alone

\* A replica calls limiter.is_rate_limited(client_id).
Call(p, client_id) ==
    /\ pc[p] = "idle"
    /\ Len(hist) + Cardinality({q \in Procs : pc[q] # "idle"}) < MaxCalls
    /\ Enter(p, client_id, "idle")
    /\ UNCHANGED <<conn, clock, store, hist, gw>>

\* Time passes.
Tick ==
    /\ clock < MaxTime
    /\ clock' = clock + 1
    /\ UNCHANGED <<conn, store, pc, call, hist, gw>>

Next ==
    \/ \E p \in Procs, c \in Clients : Call(p, c)
    \/ \E p \in Procs : Watch(p)
    \/ \E p \in Procs : Read(p)
    \/ \E p \in Procs : Execute(p)
    \/ \E p \in Procs : WatchErrorRetry(p)
    \/ \E p \in Procs : WatchErrorFallback(p)
    \/ \E p \in Procs : StoreError(p)
    \/ Tick

Spec == Init /\ [][Next]_vars

\* ------------------------------------ one caller, one call after the other
\* The scripts of the tests: calls made one at a time, on either limiter
\* instance, with sleeps between them; the store answers every operation.

AllIdle == \A p \in Procs : pc[p] = "idle"

SeqCall(p, client_id) ==
    /\ AllIdle
    /\ Len(hist) < MaxSeqCalls
    /\ Enter(p, client_id, "script")
    /\ UNCHANGED <<conn, clock, store, hist, gw>>

\* The script notes what the call returned, the instance it called, and the
\* token count the call wrote.
SeqNote(p) ==
    /\ pc[p] = "script"
    /\ hist' = Append(hist, [ inst |-> call[p].inst, client |-> call[p].client,
                              now |-> call[p].now, tokens |-> call[p].tokens,
                              via |-> call[p].result.via,
                              limited |-> call[p].result.limited,
                              remaining |-> call[p].result.remaining ])
    /\ call' = [call EXCEPT ![p] = IdleCall]
    /\ pc' = [pc EXCEPT ![p] = "idle"]
    /\ UNCHANGED <<conn, clock, store, gw>>

\* time.sleep between two calls.
Sleep ==
    /\ AllIdle
    /\ clock < MaxSeqTime
    /\ clock' = clock + 1
    /\ UNCHANGED <<conn, store, pc, call, hist, gw>>

NextSeq ==
    \/ \E p \in Procs, c \in Clients : SeqCall(p, c)
    \/ \E p \in Procs : Watch(p)
    \/ \E p \in Procs : Read(p)
    \/ \E p \in Procs : Execute(p)
    \/ \E p \in Procs : SeqNote(p)
    \/ Sleep

SpecSeq == Init /\ [][NextSeq]_vars

\* -------------------------------------------------------------- the gateway

\* A registration that puts the newcomer innermost.
AddMiddlewareInnermost(user_middleware, m) == Append(user_middleware, m)

\* Starlette's add_middleware puts the new middleware in front of those
\* added before it, and the first of the list is the outermost.
AddMiddleware(user_middleware, m) == <<m>> \o user_middleware

\* app/main.py, lines 14-32, in the order of the calls, under the settings
\* given.
Assemble(cache_enabled, rate_limit_enabled) ==
    LET logging == AddMiddleware(<<>>, "Logging")
        caching == IF cache_enabled THEN AddMiddleware(logging, "Cache")
                   ELSE logging
        limiting == IF rate_limit_enabled THEN AddMiddleware(caching, "RateLimit")
                    ELSE caching
    IN  AddMiddleware(limiting, "Auth")

UserMiddleware == Assemble(CACHE_ENABLED, RATE_LIMIT_ENABLED)

\* The router is inside every middleware.
Stack == UserMiddleware \o <<"Proxy">>

\* await call_next(request): the next one in receives the request.
CallNext(r) ==
    [r EXCEPT !.phase = "in", !.pos = @ + 1,
              !.seen = Append(@, r.stack[r.pos + 1])]

\* return response: the one at pos hands the response to the next one out.
Returns(r) ==
    [r EXCEPT !.left = Append(@, r.stack[r.pos]), !.pos = @ - 1,
              !.phase = IF r.pos = 1 THEN "done" ELSE "out"]

\* The one at pos answers by itself, with a JSON body.
Answer(r, status, detail) ==
    Returns([r EXCEPT !.status = status, !.detail = detail,
                      !.hdrs = JsonHeaders])

\* jwt.decode on the token of the header: the payload, told by its sub
\* ("nosub" when it has none), or the exception raised.
Decode(authorization) ==
    CASE authorization = "valid" -> CHOOSE u \in Users : TRUE
      [] authorization = "other" -> CHOOSE u \in Subjects \ Users : TRUE
      [] authorization = "nosub" -> "nosub"
      [] authorization = "expired" -> "ExpiredSignatureError"
      [] authorization = "invalid" -> "PyJWTError"
      [] authorization = "crash" -> "Exception"

\* Everyone is let in, with no claim set.
AuthInOpen(r) == CallNext(r)

\* One answer for every token that does not verify.
AuthInMerged(r) ==
    IF r.path = "/health" THEN CallNext(r)
    ELSE IF r.authorization \in {"missing", "basic"}
         THEN Answer(r, 401, "Missing or invalid Authorization header")
    ELSE IF Decode(r.authorization)
              \in {"ExpiredSignatureError", "PyJWTError", "Exception"}
         THEN Answer(r, 401, "Token invalid")
    ELSE CallNext([r EXCEPT !.user = Decode(r.authorization)])

\* auth_middleware up to its call_next.
AuthIn(r) ==
    IF r.path = "/health" THEN CallNext(r)
    ELSE IF r.authorization \in {"missing", "basic"}
         THEN Answer(r, 401, "Missing or invalid Authorization header")
    ELSE IF Decode(r.authorization) = "ExpiredSignatureError"
         THEN Answer(r, 401, "Token expired")
    ELSE IF Decode(r.authorization) = "PyJWTError"
         THEN Answer(r, 401, "Token invalid")
    ELSE IF Decode(r.authorization) = "Exception"
         THEN Answer(r, 500, "Auth error")
    ELSE CallNext([r EXCEPT !.user = Decode(r.authorization)])

\* X-Forwarded-For up to its first comma, stripped.
FirstHop(forwarded) == IF forwarded = "f, g" THEN "f" ELSE forwarded

\* RateLimitMiddleware._get_client_id
GetClientId(r) ==
    IF r.user \notin {"none", "nosub"} THEN <<"user", r.user>>
    ELSE IF r.forwarded_for # "none" THEN <<"ip", FirstHop(r.forwarded_for)>>
    ELSE <<"ip", r.host>>

\* Headers with the count before the decrement.
RateLimitHeadersBefore(self, remaining, now) ==
    [ set |-> TRUE, limit |-> Limiter(self).max_tokens,
      remaining |-> remaining + 1, reset |-> 0 ]

\* RateLimitMiddleware.dispatch, lines 126-135: reset_time is
\* int(now + 1 / refill_rate) + 1, in seconds.
RateLimitHeaders(self, remaining, now) ==
    [ set |-> TRUE, limit |-> Limiter(self).max_tokens,
      remaining |-> remaining,
      reset |-> ((now * Limiter(self).refill_rate + TokenUnit)
                   \div (TicksPerSecond * Limiter(self).refill_rate)) + 1 ]

\* ResponseCache._should_cache_request (no Cache-Control on the requests).
ShouldCacheRequest(r) == r.method = "GET" /\ r.path # "/health"

\* Every response is stored.
ShouldCacheAny(r) == TRUE

\* ResponseCache._should_cache_response
ShouldCacheResponse(r) ==
    LET cache_control == HeaderGet(r.hdrs, "Cache-Control", "")
    IN  /\ ~(r.status < 200 \/ r.status >= 300)
        /\ ~(HasWord(cache_control, "no-cache") \/ HasWord(cache_control, "no-store"))

\* The routes of the router that take the request before the catch-all
\* does.
HealthRoute(r) == r.method = "GET" /\ r.path = "/health"
ClearCacheRoute(r) == r.method = "DELETE" /\ r.path = "/admin/cache"

\* What happens outside the gateway while a request is served: whether the
\* store answers the cache's reads (redis) and takes its write (setex), and
\* what the origin does.
Envs == [redis : BOOLEAN, setex : BOOLEAN, origin : Origins]

\* The replicas are run with the plain origin, and a store that is up or
\* down for the whole request.
GatewayEnvs ==
    { env \in Envs : env.origin \in {"up", "down"} /\ env.setex = env.redis }

\* RateLimitMiddleware.dispatch calls is_rate_limited (line 123) for every
\* path but /health.
AtLimiter(r) ==
    r.phase = "in" /\ r.stack[r.pos] = "RateLimit" /\ r.path # "/health"

\* Keys that never expire.
KeysEver(entries, t) == { k \in DOMAIN entries : entries[k].present }

\* The keys the store holds at time t (an expired key is gone).
LiveKeys(entries, t) ==
    { k \in DOMAIN entries : entries[k].present /\ entries[k].expire_at > t }

\* CacheMiddleware.dispatch, lines 185-196, on what get_cached_response
\* found: the stored headers without the gateway's own, on a dict, with
\* X-Cache and X-Cache-TTL put on it, made into a Response.
HitHeaders(stored) ==
    ResponseHeaders(DictSet(DictSet(CleanHeaders(stored), "X-Cache", "HIT"),
                            "X-Cache-TTL", ToString(CACHE_TTL)))

\* A failed read is answered with an error.
CacheInStrict(r, entries, env) ==
    LET e == entries[CacheKey(r)] IN
    IF ~ShouldCacheRequest(r) THEN CallNext(r)
    ELSE IF ~env.redis
    THEN Answer([r EXCEPT !.read = "error"], 500, "Internal Server Error")
    ELSE IF CacheKey(r) \in LiveKeys(entries, clock)
    THEN [Answer([r EXCEPT !.read = "hit", !.x_rate = e.x_rate],
                 e.status, e.detail) EXCEPT !.hdrs = HitHeaders(e.hdrs)]
    ELSE CallNext([r EXCEPT !.read = "miss"])

\* CacheMiddleware.dispatch, lines 185-200, with get_cached_response: the
\* store is asked only for a request that may be cached; a live entry is
\* served; a missing one, or a failed read, lets the request through.
CacheIn(r, entries, env) ==
    LET e == entries[CacheKey(r)] IN
    IF ~ShouldCacheRequest(r) THEN CallNext(r)
    ELSE IF ~env.redis THEN CallNext([r EXCEPT !.read = "error"])
    ELSE IF CacheKey(r) \in LiveKeys(entries, clock)
    THEN [Answer([r EXCEPT !.read = "hit", !.x_rate = e.x_rate],
                 e.status, e.detail) EXCEPT !.hdrs = HitHeaders(e.hdrs)]
    ELSE CallNext([r EXCEPT !.read = "miss"])

\* CacheMiddleware.dispatch, lines 203-205: the headers of a miss.
MissHeaders(headers) ==
    SetHeader(SetHeader(headers, "X-Cache", "MISS"), "X-Process-Time", "t")

\* Nothing is written.
CacheWriteNothing(r, entries, env) == entries

\* Nothing is deleted.
ClearCacheNothing(entries, env) == entries

\* ResponseCache.cache_response, for the response with the headers of the
\* miss on it: the entry is written with its time to live.  Only the
\* response is looked at (line 96), not the request.
WritesCache(r, env) ==
    IF ~ShouldCacheResponse(r) THEN "none"
    ELSE IF env.setex THEN "stored" ELSE "error"

\* The entry is written only where there is none: the first write wins.
CacheWriteOnce(r, entries, env) ==
    IF WritesCache(r, env) = "stored"
       /\ CacheKey(r) \notin LiveKeys(entries, clock)
    THEN [entries EXCEPT ![CacheKey(r)] =
            [ present |-> TRUE,
              expire_at |-> clock + CACHE_TTL * TicksPerSecond,
              status |-> r.status, detail |-> r.detail, x_rate |-> r.x_rate,
              hdrs |-> CleanHeaders(r.hdrs) ]]
    ELSE entries

CacheWrite(r, entries, env) ==
    IF WritesCache(r, env) = "stored"
    THEN [entries EXCEPT ![CacheKey(r)] =
            [ present |-> TRUE,
              expire_at |-> clock + CACHE_TTL * TicksPerSecond,
              status |-> r.status, detail |-> r.detail, x_rate |-> r.x_rate,
              hdrs |-> CleanHeaders(r.hdrs) ]]
    ELSE entries

\* clear_cache: every key the store holds under cache: is deleted.
ClearCache(entries, env) ==
    IF env.redis THEN [k \in DOMAIN entries |-> NoEntry] ELSE entries

\* The router: health_check; clear_cache with the count of the keys it
\* found, 500 when the store fails; or proxy_request with the origin's
\* response, 502 when the call to the origin fails.
Proxy(r, entries, env) ==
    IF HealthRoute(r) THEN Answer(r, 200, "healthy")
    ELSE IF ClearCacheRoute(r)
    THEN IF env.redis
         THEN Answer([r EXCEPT !.keys_deleted =
                                  Cardinality(LiveKeys(entries, clock))],
                     200, "Cache cleared successfully")
         ELSE Answer(r, 500, "Failed to clear cache")
    ELSE IF env.origin \in TransportFailures
         THEN Answer([r EXCEPT !.origin = TRUE, !.sent = env.origin],
                     502, "Bad Gateway")
         ELSE [Answer([r EXCEPT !.origin = TRUE, !.sent = env.origin],
                      OriginStatus(env.origin), OriginBody(env.origin))
                 EXCEPT !.hdrs = ResponseHeaders(OriginHeaders(env.origin))]

\* The middleware at pos takes its turn with the request on the way in,
\* with the response on the way out.  st is the request with the cache as
\* it stands.
Half(st, env) ==
    LET r == st.r
        m == r.stack[r.pos]
    IN  IF r.phase = "in"
        THEN CASE m = "Auth" -> [st EXCEPT !.r = AuthIn(r)]
               [] m = "RateLimit" -> [st EXCEPT !.r = CallNext(r)]
               [] m = "Cache" -> [st EXCEPT !.r = CacheIn(r, st.cache, env)]
               [] m = "CacheDisabled" -> [st EXCEPT !.r = CallNext(r)]
               [] m = "Logging" -> [st EXCEPT !.r = CallNext(r)]
               [] m = "Proxy" ->
                    [ r |-> Proxy(r, st.cache, env),
                      cache |-> IF ClearCacheRoute(r)
                                THEN ClearCache(st.cache, env) ELSE st.cache ]
        ELSE CASE m = "Auth" -> [st EXCEPT !.r = Returns(r)]
               [] m = "RateLimit" ->
                    [st EXCEPT !.r = IF r.path = "/health" THEN Returns(r)
                                      ELSE Returns([r EXCEPT !.x_rate = r.headers])]
               [] m = "Cache" ->
                    LET miss == [r EXCEPT !.hdrs = MissHeaders(@)]
                    IN  [ r |-> Returns([miss EXCEPT
                                           !.write = WritesCache(miss, env)]),
                          cache |-> CacheWrite(miss, st.cache, env) ]
               [] m = "CacheDisabled" ->
                    [st EXCEPT !.r = Returns([r EXCEPT !.hdrs =
                                      SetHeader(@, "X-Cache", "DISABLED")])]
               [] m = "Logging" -> [st EXCEPT !.r = Returns(r)]

\* The request goes from one middleware to the next until the limiter has
\* to be asked or the response is complete.
RECURSIVE Run(_, _)
Run(st, env) ==
    IF st.r.phase \notin {"in", "out"} \/ AtLimiter(st.r) THEN st
    ELSE Run(Half(st, env), env)

\* Worker p goes on with its request: into is_rate_limited when the
\* request stands at the limiter.
Continue(p, st) ==
    /\ cache' = st.cache
    /\ IF AtLimiter(st.r)
       THEN /\ req' = [req EXCEPT ![p] = [st.r EXCEPT !.phase = "limiter"]]
            /\ Enter(p, GetClientId(st.r), "dispatch")
       ELSE /\ req' = [req EXCEPT ![p] = st.r]
            /\ call' = [call EXCEPT ![p] = IdleCall]
            /\ pc' = [pc EXCEPT ![p] = "idle"]

\* A request as the outermost middleware of an application with that
\* stack receives it.
Incoming(stack, method, path, authorization) ==
    [NoRequest EXCEPT !.phase = "in", !.method = method, !.path = path,
                      !.stack = stack, !.pos = 1,
                      !.authorization = authorization,
                      !.seen = <<stack[1]>>]

\* A request arrives at replica p.
Arrive(p, method, path, authorization, env) ==
    /\ req[p].phase = "none"
    /\ pc[p] = "idle"
    /\ Continue(p, Run([ r |-> Incoming(Stack, method, path, authorization),
                         cache |-> cache ], env))
    /\ UNCHANGED <<conn, clock, store, hist>>

\* A dispatch that puts the token back when the inner handlers fail.
RateLimitDecideRefund(p, env) ==
    /\ req[p].phase = "limiter"
    /\ pc[p] = "dispatch"
    /\ LET res == call[p].result
           r == [req[p] EXCEPT
                   !.headers = RateLimitHeaders(call[p].inst, res.remaining, clock),
                   !.via = res.via, !.limited = res.limited,
                   !.stored = call[p].stored]
           st == Run([ r |-> IF res.limited
                             THEN Answer([r EXCEPT !.x_rate = r.headers],
                                         429, "Too many requests")
                             ELSE CallNext(r),
                       cache |-> cache ], env)
           key == Key(call[p].inst, call[p].client)
       IN  /\ Continue(p, st)
           /\ store' = IF ~res.limited /\ st.r.status >= 500
                        THEN [store EXCEPT ![key].tokens = @ + TokenUnit]
                        ELSE store
    /\ UNCHANGED <<conn, clock, hist>>

\* An exception that no middleware catches: the server answers 500 in
\* plain text, and the middlewares on the way out add nothing.
Unhandled(r) ==
    [r EXCEPT !.phase = "done", !.status = 500,
              !.detail = "Internal Server Error",
              !.hdrs = { <<"content-type", "text/plain; charset=utf-8">> }]

\* RateLimitMiddleware.dispatch, lines 123-152, once is_rate_limited has
\* returned: 429 with the headers, or the inner handlers and the headers on
\* their response.  seconds_per_token = 1.0 / refill_rate (line 127)
\* raises ZeroDivisionError when the rate is 0.
RateLimitDecide(p, env) ==
    /\ req[p].phase = "limiter"
    /\ pc[p] = "dispatch"
    /\ IF Limiter(call[p].inst).refill_rate = 0
       THEN /\ req' = [req EXCEPT ![p] = Unhandled(
                         [req[p] EXCEPT !.via = call[p].result.via,
                                        !.limited = call[p].result.limited,
                                        !.stored = call[p].stored])]
            /\ call' = [call EXCEPT ![p] = IdleCall]
            /\ pc' = [pc EXCEPT ![p] = "idle"]
            /\ cache' = cache
       ELSE LET res == call[p].result
                r == [req[p] EXCEPT
                        !.headers = RateLimitHeaders(call[p].inst,
                                                     res.remaining, clock),
                        !.via = res.via, !.limited = res.limited,
                        !.stored = call[p].stored]
            IN  Continue(p, Run([ r |-> IF res.limited
                                        THEN Answer([r EXCEPT !.x_rate = r.headers],
                                                    429, "Too many requests")
                                        ELSE CallNext(r),
                                  cache |-> cache ], env))
    /\ UNCHANGED <<conn, clock, store, hist>>

\* The response leaves the gateway.
Deliver(p) ==
    /\ req[p].phase = "done"
    /\ req' = [req EXCEPT ![p] = NoRequest]
    /\ UNCHANGED <<conn, clock, store, pc, call, hist, cache>>

\* The replicas are taken through the requests that go to the limiter;
\* SpecServe below has the others.
GatewayPaths == Paths \ {"/health"}

NextGateway ==
    \/ \E p \in Procs, m \in Methods, pa \in GatewayPaths, a \in Authorizations,
          env \in GatewayEnvs : Arrive(p, m, pa, a, env)
    \/ \E p \in Procs : Watch(p)
    \/ \E p \in Procs : Read(p)
    \/ \E p \in Procs : Execute(p)
    \/ \E p \in Procs : WatchErrorRetry(p)
    \/ \E p \in Procs : WatchErrorFallback(p)
    \/ \E p \in Procs : StoreError(p)
    \/ \E p \in Procs, env \in GatewayEnvs : RateLimitDecide(p, env)
    \/ \E p \in Procs : Deliver(p)
    \/ Tick

SpecGateway == Init /\ [][NextGateway]_vars

\* ------------------------- one gateway, every route
\* One replica of the assembled gateway, taken through the health check,
\* the flush and the proxied paths with every method, with no store error
\* in the limiter.

ServeProc == "p1"

NextServe ==
    \/ \E e \in ServeEndpoints, a \in Authorizations, env \in GatewayEnvs :
          Arrive(ServeProc, e[1], e[2], a, env)
    \/ Watch(ServeProc)
    \/ Read(ServeProc)
    \/ Execute(ServeProc)
    \/ \E env \in GatewayEnvs : RateLimitDecide(ServeProc, env)
    \/ Deliver(ServeProc)
    \/ Tick

SpecServe == Init /\ [][NextServe]_vars

\* ------------------------- caching disabled
\* One replica of the gateway assembled with CACHE_ENABLED false, and the
\* application of the cache tests whose cache middleware is constructed
\* with cache_enabled=False (written "CacheDisabled" in its stack).

DisabledStack == Assemble(FALSE, RATE_LIMIT_ENABLED) \o <<"Proxy">>

DisabledApp == AddMiddleware(<<>>, "CacheDisabled") \o <<"Proxy">>

ArriveDisabled(p, method, path, authorization, env) ==
    /\ req[p].phase = "none"
    /\ pc[p] = "idle"
    /\ Continue(p, Run([ r |-> Incoming(DisabledStack, method, path,
                                        authorization),
                         cache |-> cache ], env))
    /\ UNCHANGED <<conn, clock, store, hist>>

ServeDisabled(p, method, path, env) ==
    /\ req[p].phase = "none"
    /\ pc[p] = "idle"
    /\ Continue(p, Run([ r |-> Incoming(DisabledApp, method, path, "missing"),
                         cache |-> cache ], env))
    /\ UNCHANGED <<conn, clock, store, hist>>

NextDisabled ==
    \/ \E e \in ServeEndpoints, a \in Authorizations, env \in GatewayEnvs :
          ArriveDisabled(ServeProc, e[1], e[2], a, env)
    \/ \E e \in ServeEndpoints, env \in GatewayEnvs :
          ServeDisabled(ServeProc, e[1], e[2], env)
    \/ Watch(ServeProc)
    \/ Read(ServeProc)
    \/ Execute(ServeProc)
    \/ \E env \in GatewayEnvs : RateLimitDecide(ServeProc, env)
    \/ Deliver(ServeProc)
    \/ Tick

SpecDisabled == Init /\ [][NextDisabled]_vars

\* ------------------------- the authenticator alone
\* The application of the authentication tests: auth_middleware in front
\* of the handlers, here the gateway's router.

AuthApp == AddMiddleware(<<>>, "Auth") \o <<"Proxy">>

AuthServe(p, method, path, authorization, env) ==
    /\ req[p].phase = "none"
    /\ pc[p] = "idle"
    /\ Continue(p, Run([ r |-> Incoming(AuthApp, method, path, authorization),
                         cache |-> cache ], env))
    /\ UNCHANGED <<conn, clock, store, hist>>

NextAuth ==
    \/ \E e \in ServeEndpoints, a \in AllAuthorizations, env \in GatewayEnvs :
          AuthServe(ServeProc, e[1], e[2], a, env)
    \/ Deliver(ServeProc)
    \/ Tick

SpecAuth == Init /\ [][NextAuth]_vars

\* ------------------------- the store connection
\* RedisConnection.get_client and RedisConnection.close, called one after
\* the other by the process; hist notes each call and what it returned.

\* A get_client that constructs a handle whatever _instance holds.
GetClientFresh(ping) ==
    /\ Len(hist) < MaxConnCalls
    /\ conn.made < MaxHandles
    /\ conn' = [conn EXCEPT !.instance = conn.made + 1, !.made = @ + 1,
                            !.probed = IF ping THEN @ \cup {conn.made + 1}
                                       ELSE @]
    /\ hist' = Append(hist, [ op |-> "get_client", made |-> conn.made + 1,
                              returned |-> IF ping THEN conn.made + 1 ELSE 0,
                              raised |-> ~ping,
                              instance |-> conn.made + 1 ])
    /\ UNCHANGED <<clock, store, pc, call, req, cache>>

\* get_client on the connection cn: _instance is assigned the new handle
\* before the ping, and a failed ping is logged and raised again (returned
\* is 0 then).  The connection after the call, and the call as noted.
Connect(cn, ping) ==
    IF cn.instance = 0
    THEN [ conn |-> [cn EXCEPT !.instance = cn.made + 1, !.made = @ + 1,
                               !.probed = IF ping THEN @ \cup {cn.made + 1}
                                          ELSE @],
           event |-> [ op |-> "get_client", made |-> cn.made + 1,
                       returned |-> IF ping THEN cn.made + 1 ELSE 0,
                       raised |-> ~ping, instance |-> cn.made + 1 ] ]
    ELSE [ conn |-> cn,
           event |-> [ op |-> "get_client", made |-> 0,
                       returned |-> cn.instance, raised |-> FALSE,
                       instance |-> cn.instance ] ]

GetClient(ping) ==
    /\ Len(hist) < MaxConnCalls
    /\ conn.instance = 0 => conn.made < MaxHandles
    /\ conn' = Connect(conn, ping).conn
    /\ hist' = Append(hist, Connect(conn, ping).event)
    /\ UNCHANGED <<clock, store, pc, call, req, cache>>

\* close: the handle, if there is one, is closed and _instance cleared.
Close ==
    /\ Len(hist) < MaxConnCalls
    /\ conn' = IF conn.instance # 0
               THEN [conn EXCEPT !.instance = 0,
                                 !.closed = @ \cup {conn.instance}]
               ELSE conn
    /\ hist' = Append(hist, [ op |-> "close", made |-> 0, returned |-> 0,
                              raised |-> FALSE, instance |-> 0 ])
    /\ UNCHANGED <<clock, store, pc, call, req, cache>>

NextConnection ==
    \/ \E ping \in BOOLEAN : GetClient(ping)
    \/ Close

SpecConnection == Init /\ [][NextConnection]_vars

\* ------------------------- a limiter with no tokens
\* The rate-limit middleware alone over the router, its limiter
\* constructed with rate_limit_per_minute = 0.

ZeroApp == AddMiddleware(<<>>, "RateLimit") \o <<"Proxy">>
ZeroInstance == "Z"

ZeroArrive(p, method, path, env) ==
    /\ req[p].phase = "none"
    /\ pc[p] = "idle"
    /\ LET r == Incoming(ZeroApp, method, path, "missing") IN
         IF AtLimiter(r)
         THEN /\ req' = [req EXCEPT ![p] = [r EXCEPT !.phase = "limiter"]]
              /\ call' = [call EXCEPT ![p] =
                            [IdleCall EXCEPT !.inst = ZeroInstance,
                                             !.client = GetClientId(r),
                                             !.now = clock, !.ret = "dispatch"]]
              /\ pc' = [pc EXCEPT ![p] = "watch"]
              /\ cache' = cache
         ELSE Continue(p, Run([r |-> r, cache |-> cache], env))
    /\ UNCHANGED <<conn, clock, store, hist>>

NextZero ==
    \/ \E e \in ServeEndpoints, env \in GatewayEnvs :
          ZeroArrive(ServeProc, e[1], e[2], env)
    \/ Watch(ServeProc)
    \/ Read(ServeProc)
    \/ Execute(ServeProc)
    \/ \E env \in GatewayEnvs : RateLimitDecide(ServeProc, env)
    \/ Deliver(ServeProc)
    \/ Tick

SpecZero == Init /\ [][NextZero]_vars

\* ------------------------- the components that keep the handle
\* RedisRateLimiter and ResponseCache take the handle from get_client when
\* they are constructed and use self.redis_client from then on.

\* __init__ of component c: self.redis_client = RedisConnection.get_client()
Construct(c, ping) ==
    /\ Len(hist) < MaxConnCalls
    /\ conn.instance = 0 => conn.made < MaxHandles
    /\ LET got == Connect(conn, ping) IN
         /\ conn' = IF got.event.raised THEN got.conn
                    ELSE [got.conn EXCEPT !.held[c] = got.event.returned]
         /\ hist' = Append(hist, [ op |-> "construct", by |-> c,
                                   handle |-> got.event.returned,
                                   torn |-> FALSE ])
    /\ UNCHANGED <<clock, store, pc, call, req, cache>>

\* A store call of component c (pipeline, get, setex, keys, delete), made
\* on self.redis_client; torn tells whether that handle has been closed.
Operate(c) ==
    /\ Len(hist) < MaxConnCalls
    /\ conn.held[c] # 0
    /\ hist' = Append(hist, [ op |-> "store_op", by |-> c,
                              handle |-> conn.held[c],
                              torn |-> conn.held[c] \in conn.closed ])
    /\ UNCHANGED <<conn, clock, store, pc, call, req, cache>>

\* RedisConnection.close() while components are about.
Teardown ==
    /\ Len(hist) < MaxConnCalls
    /\ conn' = IF conn.instance # 0
               THEN [conn EXCEPT !.instance = 0,
                                 !.closed = @ \cup {conn.instance}]
               ELSE conn
    /\ hist' = Append(hist, [ op |-> "close", by |-> "none", handle |-> 0,
                              torn |-> FALSE ])
    /\ UNCHANGED <<clock, store, pc, call, req, cache>>

NextTeardown ==
    \/ \E c \in Components, ping \in BOOLEAN : Construct(c, ping)
    \/ \E c \in Components : Operate(c)
    \/ Teardown

SpecTeardown == Init /\ [][NextTeardown]_vars

\* ------------------------- a failing origin behind the gateway
\* One replica of the assembled gateway in front of an origin that
\* answers, fails with a 500 of its own, or cannot be reached.

FailingAuthorizations == {"valid", "expired"}

FailingEnvs ==
    { env \in Envs :
        env.redis /\ env.setex /\ env.origin \in {"up", "down", "error"} }

FailingArrive(p, method, authorization, env) ==
    /\ req[p].phase = "none"
    /\ pc[p] = "idle"
    /\ Continue(p, Run([ r |-> Incoming(Stack, method, "/api", authorization),
                         cache |-> cache ], env))
    /\ UNCHANGED <<conn, clock, store, hist>>

NextFailing ==
    \/ \E m \in {"GET", "POST"}, a \in FailingAuthorizations,
          env \in FailingEnvs : FailingArrive(ServeProc, m, a, env)
    \/ Watch(ServeProc)
    \/ Read(ServeProc)
    \/ Execute(ServeProc)
    \/ \E env \in FailingEnvs : RateLimitDecide(ServeProc, env)
    \/ Deliver(ServeProc)
    \/ Tick

SpecFailing == Init /\ [][NextFailing]_vars

\* ------------------------- the proxy handler alone
\* The router with no middleware in front of it, and an origin of every
\* kind behind it.

ProxyApp == <<"Proxy">>

ProxyEnvs ==
    { env \in [redis : BOOLEAN, setex : BOOLEAN, origin : ProxyOrigins] :
        env.setex = env.redis }

ProxyServe(p, method, path, env) ==
    /\ req[p].phase = "none"
    /\ pc[p] = "idle"
    /\ Continue(p, Run([ r |-> Incoming(ProxyApp, method, path, "missing"),
                         cache |-> cache ], env))
    /\ UNCHANGED <<conn, clock, store, hist>>

NextProxy ==
    \/ \E p \in Procs, e \in ServeEndpoints, env \in ProxyEnvs :
          ProxyServe(p, e[1], e[2], env)
    \/ \E p \in Procs : Deliver(p)

SpecProxy == Init /\ [][NextProxy]_vars

\* ------------------------- two subjects, one gateway
\* One replica of the assembled gateway serves GET /api to two subjects
\* while the origin changes its answer; what each request got is noted.

TenantAuthorizations == {"valid", "other"}

TenantEnvs ==
    { env \in Envs : env.redis /\ env.setex /\ env.origin \in {"up", "changed"} }

TenantArrive(p, authorization, env) ==
    /\ req[p].phase = "none"
    /\ pc[p] = "idle"
    /\ Len(hist) < MaxTenantCalls
    /\ Continue(p, Run([ r |-> Incoming(Stack, "GET", "/api", authorization),
                         cache |-> cache ], env))
    /\ UNCHANGED <<conn, clock, store, hist>>

TenantNote(p) ==
    /\ req[p].phase = "done"
    /\ hist' = Append(hist, [ user |-> req[p].user, status |-> req[p].status,
                              detail |-> req[p].detail, read |-> req[p].read,
                              write |-> req[p].write ])
    /\ req' = [req EXCEPT ![p] = NoRequest]
    /\ UNCHANGED <<conn, clock, store, pc, call, cache>>

NextTenants ==
    \/ \E a \in TenantAuthorizations, env \in TenantEnvs :
          TenantArrive(ServeProc, a, env)
    \/ Watch(ServeProc)
    \/ Read(ServeProc)
    \/ Execute(ServeProc)
    \/ \E env \in TenantEnvs : RateLimitDecide(ServeProc, env)
    \/ TenantNote(ServeProc)

SpecTenants == Init /\ [][NextTenants]_vars

\* ------------------------- the identity of the caller
\* _get_client_id and _generate_cache_key on requests of every kind: with
\* and without a claim set, with and without X-Forwarded-For.

ClaimSets == Subjects \cup {"none", "nosub"}
ForwardedFor == {"none", "f", "f, g"}

\* The next request of a process takes the place of its last.
Identify(p, method, path, user, forwarded) ==
    /\ pc[p] = "idle"
    /\ req' = [req EXCEPT ![p] =
                 [NoRequest EXCEPT !.phase = "identified", !.method = method,
                                   !.path = path, !.user = user,
                                   !.forwarded_for = forwarded]]
    /\ UNCHANGED <<conn, clock, store, pc, call, hist, cache>>

NextIdentity ==
    \E p \in Procs, e \in ServeEndpoints, u \in ClaimSets, f \in ForwardedFor :
        Identify(p, e[1], e[2], u, f)

SpecIdentity == Init /\ [][NextIdentity]_vars

\* ------------------------- the cache middleware alone
\* The application of the cache tests: the cache middleware with nothing
\* around it, here in front of the gateway's router, one request after the
\* other.  hist holds the response handed out last.

CacheApp == AddMiddleware(<<>>, "Cache") \o <<"Proxy">>

CacheEndpoints ==
    { <<"GET", "/api">>, <<"POST", "/api">>, <<"DELETE", "/admin/cache">> }

CacheServe(p, method, path, env) ==
    /\ req[p].phase = "none"
    /\ pc[p] = "idle"
    /\ Continue(p, Run([ r |-> Incoming(CacheApp, method, path, "missing"),
                         cache |-> cache ], env))
    /\ UNCHANGED <<conn, clock, store, hist>>

\* The test takes the response, at time at.
CacheNote(p) ==
    /\ req[p].phase = "done"
    /\ hist' = << [ method |-> req[p].method, path |-> req[p].path,
                    status |-> req[p].status, detail |-> req[p].detail,
                    hdrs |-> req[p].hdrs, read |-> req[p].read,
                    write |-> req[p].write, origin |-> req[p].origin,
                    sent |-> req[p].sent,
                    keys_deleted |-> req[p].keys_deleted, at |-> clock ] >>
    /\ req' = [req EXCEPT ![p] = NoRequest]
    /\ UNCHANGED <<conn, clock, store, pc, call, cache>>

\* The store drops the keys whose time to live is over.
Expire(entries, t) ==
    [ k \in DOMAIN entries |->
        IF k \in LiveKeys(entries, t) THEN entries[k] ELSE NoEntry ]

\* time.sleep between two requests.
CacheSleep ==
    /\ req[ServeProc].phase = "none"
    /\ clock < MaxCacheTime
    /\ clock' = clock + 1
    /\ cache' = Expire(cache, clock')
    /\ UNCHANGED <<conn, store, pc, call, hist, req>>

NextCache ==
    \/ \E e \in CacheEndpoints, env \in Envs :
          CacheServe(ServeProc, e[1], e[2], env)
    \/ CacheNote(ServeProc)
    \/ CacheSleep

SpecCache == Init /\ [][NextCache]_vars

\* ------------------------- concurrent requests to the cache
\* Two requests for GET /api are in CacheMiddleware.dispatch at once: the
\* lookup, the await of the inner handler and the write of the entry are
\* steps of their own, and the origin may change its answer in between.

RaceEnvs ==
    { env \in Envs : env.redis /\ env.setex /\ env.origin \in {"up", "changed"} }

InFlight == { p \in Procs : req[p].phase # "none" }

\* dispatch up to its await: get_cached_response, and the HIT if any.
RaceLookup(p, env) ==
    /\ req[p].phase = "none"
    /\ pc[p] = "idle"
    /\ Len(hist) + Cardinality(InFlight) < MaxRaceCalls
    /\ LET st == Half([ r |-> Incoming(CacheApp, "GET", "/api", "missing"),
                        cache |-> cache ], env)
       IN  req' = [req EXCEPT ![p] = st.r] /\ cache' = st.cache
    /\ UNCHANGED <<conn, clock, store, pc, call, hist>>

\* await call_next(request): the router calls the origin.
RaceOrigin(p, env) ==
    /\ req[p].phase = "in"
    /\ req[p].stack[req[p].pos] = "Proxy"
    /\ LET st == Half([r |-> req[p], cache |-> cache], env)
       IN  req' = [req EXCEPT ![p] = st.r] /\ cache' = st.cache
    /\ UNCHANGED <<conn, clock, store, pc, call, hist>>

\* dispatch after its await: the MISS headers and cache_response.  hist
\* keeps the writes in their order.
RaceWrite(p, env) ==
    /\ req[p].phase = "out"
    /\ req[p].stack[req[p].pos] = "Cache"
    /\ LET st == Half([r |-> req[p], cache |-> cache], env)
       IN  /\ req' = [req EXCEPT ![p] = st.r]
           /\ cache' = st.cache
           /\ hist' = Append(hist, [ by |-> p, write |-> st.r.write,
                                     status |-> st.r.status,
                                     detail |-> st.r.detail ])
    /\ UNCHANGED <<conn, clock, store, pc, call>>

NextRace ==
    \/ \E p \in Procs, env \in RaceEnvs : RaceLookup(p, env)
    \/ \E p \in Procs, env \in RaceEnvs : RaceOrigin(p, env)
    \/ \E p \in Procs, env \in RaceEnvs : RaceWrite(p, env)
    \/ \E p \in Procs : Deliver(p)

SpecRace == Init /\ [][NextRace]_vars

\* ------------------------- the rate-limit middleware alone, one by one
\* The application of the middleware tests: requests of several callers to
\* several endpoints, one after the other, each handed to is_rate_limited
\* under the identity _get_client_id gives it (dispatch, lines 119-123).

IsoEndpoints == {<<"GET", "/api">>, <<"POST", "/other">>}

\* The test application holds one middleware instance.
IsoProc == "p1"

IsoCall(p, method, path, user) ==
    /\ AllIdle
    /\ Len(hist) < MaxIsoCalls
    /\ LET r == [NoRequest EXCEPT !.phase = "limiter", !.method = method,
                                  !.path = path, !.user = user]
       IN  /\ req' = [req EXCEPT ![p] = r]
           /\ Enter(p, GetClientId(r), "script")
    /\ UNCHANGED <<conn, clock, store, hist, cache>>

\* The test notes the request and what is_rate_limited made of it.
IsoNote(p) ==
    /\ pc[p] = "script"
    /\ req[p].phase = "limiter"
    /\ hist' = Append(hist, [ method |-> req[p].method, path |-> req[p].path,
                              client |-> call[p].client, now |-> call[p].now,
                              tokens |-> call[p].tokens,
                              limited |-> call[p].result.limited,
                              remaining |-> call[p].result.remaining ])
    /\ req' = [req EXCEPT ![p] = NoRequest]
    /\ call' = [call EXCEPT ![p] = IdleCall]
    /\ pc' = [pc EXCEPT ![p] = "idle"]
    /\ UNCHANGED <<conn, clock, store, cache>>

IsoSleep ==
    /\ AllIdle
    /\ clock < MaxIsoTime
    /\ clock' = clock + 1
    /\ UNCHANGED <<conn, store, pc, call, hist, gw>>

NextIso ==
    \/ \E e \in IsoEndpoints, u \in Users \cup {"none"} :
          IsoCall(IsoProc, e[1], e[2], u)
    \/ \E p \in Procs : Watch(p)
    \/ \E p \in Procs : Read(p)
    \/ \E p \in Procs : Execute(p)
    \/ \E p \in Procs : IsoNote(p)
    \/ IsoSleep

SpecIso == Init /\ [][NextIso]_vars

\* ------------------------------------------------------------------ claims

MaxTokens == Limiter("A").max_tokens
RefillPerTick == Limiter("A").refill_rate

\* The admissions of client c among the calls that sampled their time now
\* in the interval [lo, hi]: every call that returned not limited or, with
\* committed, only those whose transaction committed.
AdmittedIn(c, lo, hi, committed) ==
    { i \in DOMAIN hist :
        /\ hist[i].client = c
        /\ ~hist[i].limited
        /\ lo <= hist[i].now /\ hist[i].now <= hi
        /\ committed => hist[i].via = "commit" }

WithinBucket(c, committed) ==
    \A i, j \in DOMAIN hist :
        hist[i].now <= hist[j].now =>
            Cardinality(AdmittedIn(c, hist[i].now, hist[j].now, committed)) * TokenUnit
                <= MaxTokens * TokenUnit + RefillPerTick * (hist[j].now - hist[i].now)

C2_TokensInRange ==
    \A k \in Keys :
        store[k].present =>
            /\ 0 <= store[k].tokens
            /\ store[k].tokens <= MaxTokens * TokenUnit

\* The calls of client c the script has noted, in order.
CallsOf(c) == SelectSeq(hist, LAMBDA e : e.client = c)

SameInstant(h, i, j) == \A k \in i..j : h[k].now = h[i].now

\* C4: from an absent bucket, with no time between the calls, the first
\* max_tokens calls return (not limited, N-1), ..., (not limited, 0) and the
\* calls after them (limited, 0).
C4_SequentialDrain ==
    \A c \in Clients :
        LET h == CallsOf(c)
        IN  \A j \in 1..Len(h) :
                SameInstant(h, 1, j) =>
                    /\ h[j].limited = (j > MaxTokens)
                    /\ h[j].remaining = IF j <= MaxTokens THEN MaxTokens - j ELSE 0

C4_Witness ==
    \E c \in Clients :
        LET h == CallsOf(c)
        IN  /\ Len(h) > MaxTokens
            /\ SameInstant(h, 1, MaxTokens + 1)
            /\ h[MaxTokens + 1].limited

\* The calls i+1..j of h follow the denied call i after one wait, with no
\* time between them; they are expected to succeed up to the quota'th and
\* the one after the quota to be denied.
AfterDenial(h, i, j, quota) ==
    (/\ h[i].limited
     /\ SameInstant(h, i + 1, j))
    => /\ (j - i <= quota) => ~h[j].limited
       /\ (j - i = quota + 1) => h[j].limited

Waited(h, i) == h[i + 1].now - h[i].now

\* C5, as the spec states it: after a denied call and a wait of w,
\* floor(w * refill_rate) calls, at most max_tokens, succeed and the next
\* one is denied.
C5_RefillFloor ==
    \A c \in Clients :
        LET h == CallsOf(c)
        IN  \A i, j \in 1..Len(h) :
                i < j => AfterDenial(h, i, j,
                            Min(MaxTokens, (Waited(h, i) * RefillPerTick) \div TokenUnit))

\* C5, amended: the fraction r of a token that the denied call left in the
\* bucket counts too: floor(r + w * refill_rate) calls, at most max_tokens,
\* succeed and the next one is denied.
C5_RefillWithResidue ==
    \A c \in Clients :
        LET h == CallsOf(c)
        IN  \A i, j \in 1..Len(h) :
                i < j => AfterDenial(h, i, j,
                            Min(MaxTokens, (h[i].tokens + Waited(h, i) * RefillPerTick)
                                              \div TokenUnit))

\* A denial that left part of a token, a wait too short to refill a whole
\* one, and a call that succeeds all the same.
C5_Witness ==
    \E c \in Clients :
        LET h == CallsOf(c)
        IN  \E i \in 1..(Len(h) - 1) :
                /\ h[i].limited
                /\ h[i].tokens > 0
                /\ Waited(h, i) > 0
                /\ (Waited(h, i) * RefillPerTick) \div TokenUnit = 0
                /\ ~h[i + 1].limited

\* C6: a call in which a store operation raised returns (not limited,
\* max_tokens).
C6_StoreErrorFailsOpen ==
    \A i \in DOMAIN hist :
        hist[i].via = "error" =>
            /\ ~hist[i].limited
            /\ hist[i].remaining = MaxTokens

\* The store failed a call made on a drained bucket, which was admitted.
C6_Witness ==
    \E i, j \in DOMAIN hist :
        /\ i < j
        /\ hist[i].via = "commit" /\ hist[i].limited
        /\ hist[j].via = "error" /\ hist[j].client = hist[i].client

RECURSIVE SingleAfter(_, _)
SingleTokens(h, n) ==
    Refill("A", Fields(SingleAfter(h, n - 1), h[n].now), h[n].now)

SingleAfter(h, n) ==
    IF n = 0 THEN NoRecord
    ELSE [ present |-> TRUE, tokens |-> Consume(SingleTokens(h, n)),
           last_refill |-> h[n].now, expire_at |-> h[n].now + Ttl("A") ]

\* C10: the calls of a client, split over the instances that share the
\* store, return what one instance returns for the same calls.
C10_AsOneLimiter ==
    \A c \in Clients :
        LET h == CallsOf(c)
        IN  \A n \in 1..Len(h) :
                /\ h[n].limited = IsLimited(SingleTokens(h, n))
                /\ h[n].remaining = PyInt(Consume(SingleTokens(h, n)))

\* Instance A admitted calls, instance B denied a later one.
C10_Witness ==
    \E c \in Clients :
        LET h == CallsOf(c)
        IN  \E i, j \in 1..Len(h) :
                /\ i < j
                /\ h[i].inst = "A" /\ ~h[i].limited
                /\ h[j].inst = "B" /\ h[j].limited

\* The order of the pipeline as the specification lists it, outermost first.
SpecifiedOrder == <<"Logging", "Cache", "RateLimit", "Auth", "Proxy">>

IsPrefix(s, t) == Len(s) <= Len(t) /\ \A i \in 1..Len(s) : s[i] = t[i]

Reverse(s) == [i \in 1..Len(s) |-> s[Len(s) + 1 - i]]

\* C3: every request of the assembled gateway goes through the middlewares
\* in the order Logging, Cache, Rate limiter, Authenticator, Proxy handler:
\* each receives the request before the next one does, and gets the response
\* back after it.
C3_PipelineOrder ==
    \A p \in Procs :
       req[p].phase # "none" =>
          /\ IsPrefix(req[p].seen, SpecifiedOrder)
          /\ req[p].phase = "done" => req[p].left = Reverse(req[p].seen)

\* A response to a request that the rate-limit middleware let through.
Admitted(p) ==
    req[p].phase = "done" /\ req[p].via # "none" /\ ~req[p].limited

\* n is the floor of a token count given in units.
IsFloor(n, units) == n * TokenUnit <= units /\ units < (n + 1) * TokenUnit

\* C8, as claimed: the response to every admitted request carries
\* X-RateLimit-Limit = max_tokens and X-RateLimit-Remaining = the floor of
\* the token count the store holds for the client once the limiter has
\* decided.
C8_RemainingIsStoredFloor ==
    \A p \in Procs :
       Admitted(p) =>
          /\ req[p].x_rate.set
          /\ req[p].x_rate.limit = MaxTokens
          /\ IsFloor(req[p].x_rate.remaining, req[p].stored)

\* C8, amended: the response to every admitted request carries
\* X-RateLimit-Limit = max_tokens; X-RateLimit-Remaining is the floor of the
\* token count the request's transaction stored after its decrement when the
\* transaction committed, and max_tokens when the limiter failed open.
C8_RemainingOnCommit ==
    \A p \in Procs :
       Admitted(p) =>
          /\ req[p].x_rate.set
          /\ req[p].x_rate.limit = MaxTokens
          /\ IF req[p].via = "commit"
             THEN IsFloor(req[p].x_rate.remaining, req[p].stored)
             ELSE req[p].x_rate.remaining = MaxTokens

\* An admitted request whose decrement left a fraction of a token, and one
\* admitted by the fallback while the bucket was not full.
C8_Witness ==
    /\ \E p \in Procs :
          /\ Admitted(p) /\ req[p].via = "commit"
          /\ req[p].stored > 0 /\ req[p].x_rate.remaining = 0
    /\ \E p \in Procs :
          /\ Admitted(p) /\ req[p].via = "error"
          /\ req[p].stored < MaxTokens * TokenUnit

\* C9: a request the limiter denies is answered 429 with the body
\* {"detail": "Too many requests"} and the X-RateLimit headers, with
\* X-RateLimit-Remaining = 0, and neither the inner handlers nor the origin
\* are called for it.
C9_DenialAnswer ==
    \A p \in Procs :
       req[p].phase = "done" /\ req[p].limited =>
          /\ req[p].status = 429
          /\ req[p].detail = "Too many requests"
          /\ req[p].x_rate.set
          /\ req[p].x_rate.limit = MaxTokens
          /\ req[p].x_rate.remaining = 0
          /\ Stack[Len(req[p].seen)] = "RateLimit"
          /\ ~req[p].origin

\* The requests of client c the test has noted, in order.
RequestsOf(c) == SelectSeq(hist, LAMBDA e : e.client = c)

\* C11: the bucket depends on the client identity alone.  The requests of
\* a client, whatever their paths and methods and whatever other clients do
\* in between, get what one limiter gives that client's requests alone, and
\* the client's record is the one its own last request wrote, absent while
\* it has made none.
C11_BucketPerClient ==
    \A c \in Clients \cup IpClients :
        LET h == RequestsOf(c)
        IN  /\ \A n \in 1..Len(h) :
                  /\ h[n].limited = IsLimited(SingleTokens(h, n))
                  /\ h[n].remaining = PyInt(Consume(SingleTokens(h, n)))
            /\ AllIdle =>
                  store[Key("A", c)] =
                     [SingleAfter(h, Len(h)) EXCEPT
                        !.expire_at = IF Len(h) = 0 THEN 0 ELSE @]

\* Client A is exhausted over two endpoints and methods, and client B then
\* still gets a full bucket.
C11_Witness ==
    \E i, j, k \in DOMAIN hist :
        /\ i < j /\ j < k
        /\ hist[i].client = hist[j].client /\ hist[k].client # hist[i].client
        /\ hist[i].path # hist[j].path /\ hist[i].method # hist[j].method
        /\ ~hist[i].limited /\ hist[j].limited
        /\ ~hist[k].limited /\ hist[k].remaining = MaxTokens - 1

\* The response worker p is about to hand out.
Done(p) == req[p].phase = "done"

\* C12: a request for /health, whatever else it carries, is let through by
\* the authentication, never taken to the limiter, reaches the router and
\* is answered 200 by the health check, not by the origin.
C12_HealthBypass ==
    \A p \in Procs :
        Done(p) /\ req[p].path = "/health" =>
            /\ req[p].user = "none"
            /\ req[p].via = "none"
            /\ "Proxy" \in { req[p].seen[i] : i \in DOMAIN req[p].seen }
            /\ ~req[p].origin
            /\ req[p].status = 200

\* The values of the X-Cache headers on a response.
XCache(r) == { h[2] : h \in { x \in r.hdrs : x[1] = "x-cache" } }

\* C13: a request for /health never triggers the cache: the store is not
\* asked for an entry, no entry is written for the response, and the
\* response is not a HIT.
C13_HealthNeverCached ==
    \A p \in Procs :
        Done(p) /\ req[p].path = "/health" =>
            /\ req[p].read = "none"
            /\ req[p].write = "none"
            /\ "HIT" \notin XCache(req[p])
            /\ ~\E k \in LiveKeys(cache, clock) : k[3] = "/health"

\* The time to live of an entry, in ticks.
TtlTicks == CACHE_TTL * TicksPerSecond

\* The response before (a) and the one now (b) answer the same request.
SameRequest(a, b) == a.method = b.method /\ a.path = b.path

\* The response handed out last was a MISS whose response was stored.
StoredMiss(a) == a.read \in {"miss", "error"} /\ a.write = "stored"

Foreign(headers) == { h \in headers : h[1] \notin InjectedNames }

\* C15: a HIT has the body, the status and the headers of the stored
\* entry, with exactly X-Cache: HIT and X-Cache-TTL put on and no
\* X-Process-Time; and the entry stored at a MISS has the body, the status
\* and the headers of that MISS but for the gateway's own.
C15_HitEqualsStored ==
    \A p \in Procs :
        LET r == req[p]
            e == cache[CacheKey(r)]
        IN  /\ Done(p) /\ r.read = "hit" =>
                /\ r.detail = e.detail /\ r.status = e.status
                /\ Foreign(r.hdrs) = e.hdrs
                /\ r.hdrs \ Foreign(r.hdrs) =
                      { <<"x-cache", "HIT">>,
                        <<"x-cache-ttl", ToString(CACHE_TTL)>> }
            /\ Done(p) /\ r.write = "stored" =>
                /\ e.detail = r.detail /\ e.status = r.status
                /\ e.hdrs = Foreign(r.hdrs)
            /\ Done(p) /\ r.read = "hit" /\ Len(hist) = 1
                 /\ SameRequest(hist[1], r) /\ StoredMiss(hist[1]) =>
                /\ r.detail = hist[1].detail /\ r.status = hist[1].status
                /\ Foreign(r.hdrs) = Foreign(hist[1].hdrs)

\* A HIT that repeats what the origin answered, with headers named like
\* the gateway's, to the MISS before.
C15_Witness ==
    \E p \in Procs :
        /\ Done(p) /\ req[p].read = "hit" /\ Len(hist) = 1
        /\ SameRequest(hist[1], req[p]) /\ StoredMiss(hist[1])
        /\ hist[1].detail = OriginBody("changed")
        /\ <<"x-process-time", "t">> \in hist[1].hdrs
        /\ req[p].detail = OriginBody("changed")

\* C16: in the assembled gateway a HIT consumes no token (the request's
\* call of the limiter, if any, commits nothing to the bucket) and is not
\* answered 429.
C16_HitTakesNoToken ==
    \A p \in Procs :
        Done(p) /\ req[p].read = "hit" =>
            /\ req[p].via # "commit"
            /\ req[p].status # 429

\* C17: every response of the gateway carries one X-Cache header, with
\* HIT, MISS or DISABLED.
C17_XCacheOnEveryResponse ==
    \A p \in Procs :
        Done(p) => \E v \in {"HIT", "MISS", "DISABLED"} : XCache(req[p]) = {v}

\* C18: an entry is served only within its time to live.  A HIT is served
\* from an entry that has not expired; and the identical GET that comes
\* once the time to live of the entry stored for the response before has
\* elapsed is a MISS for which the router is called again, and whose
\* response is stored anew if it is cacheable and the store takes it.
C18_ServedWithinTtl ==
    \A p \in Procs :
        LET r == req[p]
            e == cache[CacheKey(r)]
        IN  /\ Done(p) /\ r.read = "hit" =>
                e.present /\ clock < e.expire_at /\ e.expire_at <= clock + TtlTicks
            /\ Done(p) /\ Len(hist) = 1 /\ ShouldCacheRequest(r)
                 /\ SameRequest(hist[1], r) /\ hist[1].write = "stored"
                 /\ clock >= hist[1].at + TtlTicks =>
                /\ XCache(r) = {"MISS"}
                /\ r.seen = <<"Cache", "Proxy">>
                /\ r.write = "stored" =>
                      e.present /\ e.expire_at = clock + TtlTicks
                /\ ShouldCacheResponse(r) => r.write \in {"stored", "error"}

C18_Witness ==
    \E p \in Procs :
        /\ Done(p) /\ Len(hist) = 1
        /\ SameRequest(hist[1], req[p]) /\ hist[1].write = "stored"
        /\ ShouldCacheRequest(req[p])
        /\ clock >= hist[1].at + TtlTicks
        /\ XCache(req[p]) = {"MISS"} /\ req[p].origin
        /\ req[p].write = "stored"

\* The flush has answered for worker p.
Flushed(r) == ClearCacheRoute(r) /\ r.status = 200

\* C19: the flush deletes every key under cache: the store holds and
\* answers with their number (what is left is the entry made of its own
\* answer, see C20); the cacheable GET that follows it is a MISS.
C19_FlushAll ==
    /\ [][ \A p \in Procs :
             ~Done(p) /\ Done(p)' /\ Flushed(req'[p]) =>
                /\ req'[p].keys_deleted = Cardinality(LiveKeys(cache, clock))
                /\ \A k \in LiveKeys(cache', clock) :
                      /\ k = CacheKey(req'[p])
                      /\ cache'[k].expire_at = clock + TtlTicks ]_vars
    /\ [](\A p \in Procs :
             /\ Done(p) /\ Len(hist) = 1 /\ Flushed(hist[1])
             /\ ShouldCacheRequest(req[p])
             => /\ XCache(req[p]) = {"MISS"}
                /\ req[p].read \in {"miss", "error"}
                /\ req[p].seen = <<"Cache", "Proxy">>)

\* The flush found the entries of all three requests, and the GET after
\* it goes to the origin.
C19_Witness ==
    \E p \in Procs :
        /\ Done(p) /\ Len(hist) = 1 /\ Flushed(hist[1])
        /\ hist[1].keys_deleted = Cardinality(CacheEndpoints)
        /\ ShouldCacheRequest(req[p])
        /\ req[p].read = "miss" /\ req[p].origin

\* C20: only GET requests are cached: a request of another method is not
\* answered from the cache, the store is not asked for it, and no entry is
\* written for its response.
C20_OnlyGetCached ==
    /\ \A p \in Procs :
          Done(p) /\ req[p].method # "GET" =>
              /\ req[p].read = "none"
              /\ "HIT" \notin XCache(req[p])
              /\ req[p].write # "stored"
    /\ \A k \in LiveKeys(cache, clock) : k[2] = "GET"

\* A response that must not be cached: a status outside [200, 300), or a
\* Cache-Control with no-cache or no-store.
Uncacheable(status, headers) ==
    \/ status \notin 200..299
    \/ \E h \in headers :
          h[1] = "cache-control" /\ h[2] \in {"no-cache", "private, no-store"}

\* C21: a response that must not be cached goes through the cache
\* middleware with the status, the body and the headers the router gave it
\* (the middleware only puts its own X-Cache: MISS and X-Process-Time on
\* it) and is not written to the store; so no entry of the store and no
\* HIT is such a response.
C21_UncacheableNotStored ==
    /\ \A p \in Procs :
          LET r == req[p] IN
          /\ Done(p) /\ r.read # "hit" /\ Uncacheable(r.status, r.hdrs) =>
                /\ r.write = "none"
                /\ r.sent = "down" =>
                      /\ r.status = 502 /\ r.detail = "Bad Gateway"
                      /\ Foreign(r.hdrs) = JsonHeaders
                /\ r.sent \notin {"none", "down"} =>
                      /\ r.status = OriginStatus(r.sent)
                      /\ r.detail = OriginBody(r.sent)
                      /\ Foreign(r.hdrs) =
                            Foreign(ResponseHeaders(OriginHeaders(r.sent)))
                /\ XCache(r) = {"MISS"}
          /\ Done(p) /\ r.read = "hit" => ~Uncacheable(r.status, r.hdrs)
    /\ \A k \in LiveKeys(cache, clock) :
          ~Uncacheable(cache[k].status, cache[k].hdrs)

\* The origin forbids caching, and the same GET after it goes to the
\* origin again, which answers with an error.
C21_Witness ==
    \E p \in Procs :
        /\ Done(p) /\ Len(hist) = 1 /\ SameRequest(hist[1], req[p])
        /\ ShouldCacheRequest(req[p])
        /\ hist[1].sent = "nostore" /\ hist[1].read = "miss"
        /\ req[p].read = "miss" /\ req[p].sent = "error"
        /\ req[p].status = 500 /\ req[p].write = "none"

\* C22: with caching disabled no request leads to a cache lookup or a
\* cache store, the store holds no entry, and every response carries
\* X-Cache: DISABLED.
C22_DisabledEverywhere ==
    /\ \A p \in Procs :
          Done(p) =>
              /\ req[p].read = "none" /\ req[p].write = "none"
              /\ XCache(req[p]) = {"DISABLED"}
    /\ LiveKeys(cache, clock) = {}

\* C23: a store failure in the cache does not reach the client.  After a
\* failed read the router is called and its response is returned with
\* X-Cache: MISS; after a failed write the response is returned all the
\* same and no entry is stored for it.
C23_CacheFailsOpen ==
    /\ [](\A p \in Procs :
            LET r == req[p] IN
            Done(p) /\ (r.read = "error" \/ r.write = "error") =>
                /\ r.seen = <<"Cache", "Proxy">>
                /\ XCache(r) = {"MISS"}
                /\ r.sent \notin {"none", "down"} =>
                      /\ r.status = OriginStatus(r.sent)
                      /\ r.detail = OriginBody(r.sent)
                /\ r.sent = "down" => r.status = 502
                /\ Flushed(r) => r.detail = "Cache cleared successfully")
    /\ [][ \A p \in Procs :
             ~Done(p) /\ Done(p)' /\ req'[p].write = "error" =>
                LET k == CacheKey(req'[p])
                IN  cache'[k] = IF Flushed(req'[p]) THEN NoEntry ELSE cache[k] ]_vars

\* The read fails, the origin answers, and the write succeeds; and a GET
\* whose write failed after the response before was stored.
C23_Witness ==
    \E p \in Procs :
        /\ Done(p) /\ req[p].read = "error" /\ req[p].sent = "up"
        /\ req[p].status = 200 /\ req[p].write = "stored"
        /\ Len(hist) = 1 /\ hist[1].write = "error" /\ hist[1].status = 200

\* The claim set a token verifies to, if it does.
Verifies(authorization) == authorization \in {"valid", "other", "nosub"}

\* The handlers inside the authenticator were called.
Inside(r) == \E i \in DOMAIN r.seen : r.seen[i] # "Auth"

\* C25: for a path other than /health the authenticator calls the inner
\* handler exactly when the request carries a Bearer token that verifies,
\* and then with the decoded claim set attached to the request.
C25_OnlyVerifiedPass ==
    \A p \in Procs :
        LET r == req[p] IN
        Done(p) /\ r.path # "/health" =>
            /\ Inside(r) <=> Verifies(r.authorization)
            /\ Inside(r) => r.user = Decode(r.authorization)

\* A request whose token verifies for subject b has reached the origin.
C25_Witness ==
    \E p \in Procs :
        /\ Done(p) /\ req[p].path = "/api" /\ req[p].authorization = "other"
        /\ req[p].user = "b" /\ req[p].origin /\ req[p].status = 200

\* C26: each failure of the authenticator has its one answer, and none
\* attaches a claim set or calls the inner handler.
C26_FailureAnswers ==
    \A p \in Procs :
        LET r == req[p]
            a == r.authorization
        IN  Done(p) /\ r.path # "/health" /\ ~Verifies(a) =>
                /\ r.user = "none" /\ r.seen = <<"Auth">>
                /\ a \in {"missing", "basic"} =>
                      /\ r.status = 401
                      /\ r.detail = "Missing or invalid Authorization header"
                /\ a = "expired" => r.status = 401 /\ r.detail = "Token expired"
                /\ a = "invalid" => r.status = 401 /\ r.detail = "Token invalid"
                /\ a = "crash" => r.status = 500 /\ r.detail = "Auth error"

C26_Witness ==
    \E p \in Procs :
        /\ Done(p) /\ req[p].path = "/api" /\ req[p].authorization = "expired"
        /\ req[p].status = 401 /\ req[p].detail = "Token expired"
        /\ clock > 0

\* The identity the specification names: the subject, else the first
\* forwarded hop, else the peer.
NamedIdentity(r) ==
    IF r.user \in Subjects THEN <<"user", r.user>>
    ELSE IF r.forwarded_for # "none" THEN <<"ip", FirstHop(r.forwarded_for)>>
    ELSE <<"ip", r.host>>

Identified(p) == req[p].phase = "identified"

\* C27 as stated: the limiter and the cache derive the same identity for
\* every request, the subject, else the first forwarded hop, else the peer.
C27_SameIdentity ==
    \A p \in Procs :
        Identified(p) =>
            /\ GetClientId(req[p]) = NamedIdentity(req[p])
            /\ CacheIdentity(req[p]) = NamedIdentity(req[p])

\* C27: the limiter derives the subject, else the first forwarded hop,
\* else the peer; the cache derives the subject when the claim set has
\* one, "user:anonymous" when it has none, and "anonymous" without a claim
\* set; the two agree exactly on the requests whose claim set has a
\* subject.
C27_IdentityBySubject ==
    \A p \in Procs :
        LET r == req[p] IN
        Identified(p) =>
            /\ GetClientId(r) = NamedIdentity(r)
            /\ CacheIdentity(r) =
                   IF r.user \in Subjects THEN <<"user", r.user>>
                   ELSE IF r.user = "nosub" THEN <<"user", "anonymous">>
                   ELSE <<"anonymous">>
            /\ GetClientId(r) = CacheIdentity(r) <=> r.user \in Subjects

\* One request with a subject and one without, behind a forwarder.
C27_Witness ==
    \E p, q \in Procs :
        /\ Identified(p) /\ req[p].user = "b"
        /\ Identified(q) /\ req[q].user = "none"
        /\ req[q].forwarded_for = "f, g"
        /\ GetClientId(req[q]) = <<"ip", "f">>
        /\ CacheIdentity(req[q]) = <<"anonymous">>

\* C24: in the assembled gateway a HIT served to a subject is a response
\* stored for a request of that same subject, never one stored for
\* another subject's request for the same method, path and query.
C24_HitFromOwnSubject ==
    \A i \in DOMAIN hist :
        hist[i].read = "hit" =>
            \E j \in 1..(i - 1) :
                /\ hist[j].user = hist[i].user
                /\ hist[j].write = "stored"
                /\ hist[j].status = hist[i].status
                /\ hist[j].detail = hist[i].detail

\* Subject a stored the first answer of the origin; subject b then missed,
\* got the changed answer, and was served that one again as a HIT.
C24_Witness ==
    /\ Len(hist) = 3
    /\ hist[1].user = "a" /\ hist[1].write = "stored"
    /\ hist[1].detail = "origin"
    /\ hist[2].user = "b" /\ hist[2].read = "miss"
    /\ hist[2].write = "stored" /\ hist[2].detail = "origin2"
    /\ hist[3].user = "b" /\ hist[3].read = "hit"
    /\ hist[3].detail = "origin2"

\* The request went to the origin.
Proxied(r) == r.phase = "done" /\ r.origin

\* C28: a connection error or a timeout of the origin call is answered
\* 502 "Bad Gateway"; any answer of the origin is returned with its status,
\* its body and its headers (names in lower case) as the origin sent them.
C28_ProxyTransparent ==
    \A p \in Procs :
        LET r == req[p] IN
        Proxied(r) =>
            IF r.sent \in TransportFailures
            THEN r.status = 502 /\ r.detail = "Bad Gateway"
            ELSE /\ r.status = OriginStatus(r.sent)
                 /\ r.detail = WireBody(r.sent)
                 /\ r.hdrs = ResponseHeaders(OriginHeaders(r.sent))

\* The request was admitted by the limiter at the price of a token.
TokenTaken(r) == r.via = "commit" /\ ~r.limited

\* The bucket record of the client of r at the replica of p.
BucketOf(p, r) == store[Key(InstanceOf(p), GetClientId(r))]

\* C29: the token of an admitted request is not given back.  When the
\* request ends in a 502, a 5xx of the origin or a 401, the bucket holds
\* the decremented count the admission wrote, and no step of the gateway
\* from the admission to the delivery of the response writes the bucket.
C29_NoRefund ==
    /\ [](\A p \in Procs :
            LET r == req[p] IN
            Done(p) /\ TokenTaken(r) /\ r.status \in {401, 500, 502} =>
                /\ BucketOf(p, r).present
                /\ BucketOf(p, r).tokens = r.stored
                /\ r.stored <= (Limiter(InstanceOf(p)).max_tokens - 1) * TokenUnit)
    /\ [][\A p \in Procs :
            pc[p] = "dispatch" \/ Done(p) => store' = store]_vars

\* The second admitted request of a window came back with the 500 of the
\* origin, and the bucket stays empty.
C29_Witness ==
    \E p \in Procs :
        LET r == req[p] IN
        /\ Done(p) /\ TokenTaken(r) /\ r.status = 500 /\ r.sent = "error"
        /\ BucketOf(p, r).tokens = r.stored
        /\ r.stored = 0

\* No close() among the calls i+1 .. j-1.
NoCloseBetween(i, j) == \A k \in (i + 1)..(j - 1) : hist[k].op # "close"

\* Call i is the first get_client since the start or the last close().
FirstSinceClose(i) ==
    /\ hist[i].op = "get_client"
    /\ \A k \in 1..(i - 1) : hist[k].op = "get_client" => ~NoCloseBetween(k, i)

\* C30: the store client is a singleton.  Between two close() calls every
\* get_client returns the one handle that the first of them constructed;
\* close() closes that handle and clears the singleton; the get_client
\* after it constructs a handle that was never handed out before.
C30_Singleton ==
    /\ conn.instance # 0 => conn.instance \notin conn.closed
    /\ \A j \in DOMAIN hist :
          /\ hist[j].op = "close" =>
                /\ hist[j].instance = 0
                /\ \A k \in 1..(j - 1) : hist[k].made \in conn.closed \cup {0}
          /\ hist[j].op = "get_client" /\ hist[j].returned # 0 =>
                \E i \in 1..j :
                    /\ FirstSinceClose(i) /\ NoCloseBetween(i, j + 1)
                    /\ hist[i].made = hist[j].returned
          /\ hist[j].op = "get_client" /\ hist[j].made # 0 =>
                /\ FirstSinceClose(j)
                /\ \A k \in 1..(j - 1) : hist[k].made # hist[j].made
          /\ FirstSinceClose(j) => hist[j].made # 0

\* Two calls returned one handle, close() cleared it, and the next call
\* returned a new one.
C30_Witness ==
    /\ Len(hist) = 4
    /\ hist[1].returned = 1 /\ hist[2].returned = 1
    /\ hist[3].op = "close"
    /\ hist[4].returned = 2 /\ hist[4].made = 2
    /\ conn.closed = {1} /\ conn.instance = 2

\* C31: a get_client whose ping fails raises, and no get_client, that one
\* or a later one, returns a handle that has not answered a ping.
C31_OnlyProbedReturned ==
    \A j \in DOMAIN hist :
        hist[j].op = "get_client" =>
            /\ hist[j].made # 0 /\ hist[j].made \notin conn.probed
                  => hist[j].raised
            /\ hist[j].returned # 0 => hist[j].returned \in conn.probed

\* C32: no component makes a store call on a handle that close() has
\* torn down.
C32_NoUseAfterClose ==
    \A j \in DOMAIN hist : hist[j].op = "store_op" => ~hist[j].torn

\* C33: with max_tokens = 0 every is_rate_limited call returns
\* (limited, 0), and every request that is not for a bypass path is
\* answered 429 by the rate-limit middleware.
C33_ZeroAlwaysDenies ==
    \A p \in Procs :
        /\ pc[p] = "dispatch" /\ call[p].inst = ZeroInstance =>
              call[p].result.limited /\ call[p].result.remaining = 0
        /\ Done(p) /\ req[p].path # "/health" => req[p].status = 429

\* The middleware took its turn with the request on the way in.
Saw(r, middleware) == \E i \in DOMAIN r.seen : r.seen[i] = middleware

\* The middleware took its turn with the response on the way out.
Left(r, middleware) == \E i \in DOMAIN r.left : r.left[i] = middleware

\* C34: every request to the assembled gateway, whatever its path and
\* whether or not it is answered 401, 429 or from the cache, has its
\* arrival logged by the logging middleware and, once answered, its
\* completion.
C34_EveryRequestLogged ==
    \A p \in Procs :
        Done(p) => Saw(req[p], "Logging") /\ Left(req[p], "Logging")

\* Worker p reads the bucket in this step.
ReadStep(p) == pc[p] = "read" /\ pc'[p] = "exec"

\* Worker p commits its transaction in this step and returns.
CommitStep(p) ==
    /\ pc[p] = "exec" /\ pc'[p] = "idle"
    /\ Len(hist') = Len(hist) + 1
    /\ hist'[Len(hist')].via = "commit"

\* C35: a denied call decrements nothing.  The count it holds after its
\* read is the refilled value min(max_tokens, tokens + (now - last_refill)
\* x refill_rate) of the record it read, and its commit writes that count
\* and last_refill = now.
C35_DeniedWritesRefill ==
    [][\A p \in Procs :
          LET self == call[p].inst
              key == Key(self, call[p].client)
          IN  /\ ReadStep(p) /\ call'[p].is_limited =>
                    call'[p].tokens = Refill(self, Hmget(key), call[p].now)
              /\ CommitStep(p) /\ call[p].is_limited =>
                    /\ hist'[Len(hist')].limited
                    /\ store'[key].present
                    /\ store'[key].tokens = call[p].tokens
                    /\ store'[key].last_refill = call[p].now]_vars

\* A denied call has committed: the bucket keeps less than one token and
\* the time of that call.
C35_Witness ==
    \E i \in DOMAIN hist :
        /\ hist[i].limited /\ hist[i].via = "commit"
        /\ store[Key("A", hist[i].client)].present
        /\ store[Key("A", hist[i].client)].tokens < TokenUnit
        /\ store[Key("A", hist[i].client)].last_refill = hist[i].now
        /\ hist[i].now > 0

\* What a reader would find had the record not been removed by expiry.
Kept(rec) ==
    [found |-> rec.present, tokens |-> rec.tokens, last_refill |-> rec.last_refill]

\* The record of key k has run out of its time to live.
Expired(k) == store[k].present /\ ~Live(store[k], clock)

\* C36: every committed update leaves the record with a time to live of
\* 3 x window_size_seconds, and expiry changes no result: a call made
\* once a record has expired computes, from no record, the same refilled
\* count (hence the same limited, remaining and written record) that it
\* would compute from the record had it been kept.
C36_ExpiryChangesNothing ==
    \A k \in Keys :
        /\ store[k].present =>
              store[k].expire_at
                 = store[k].last_refill + 3 * window_size_seconds * TicksPerSecond
        /\ Expired(k) =>
              \A now \in clock..(clock + TokenUnit) :
                  Refill("A", Kept(store[k]), now) = Refill("A", Hmget(k), now)

\* A record one token short of full has expired.
C36_Witness ==
    \E k \in Keys :
        /\ Expired(k)
        /\ store[k].tokens < Limiter("A").max_tokens * TokenUnit
        /\ Refill("A", Kept(store[k]), clock) = Limiter("A").max_tokens * TokenUnit

\* The entry under the key of GET /api for a caller with no claim set.
RaceEntry ==
    cache[CacheKey(Incoming(CacheApp, "GET", "/api", "missing"))]

\* C37: concurrent misses on one key are not coalesced.  Every request
\* that missed has called the origin by the time it is answered, is
\* answered with what its own call returned, and has written the entry;
\* the entry in the store is the one written last.
C37_LastWriteWins ==
    /\ \A p \in Procs :
          Done(p) /\ req[p].read = "miss" =>
              /\ req[p].origin
              /\ req[p].status = OriginStatus(req[p].sent)
              /\ req[p].detail = OriginBody(req[p].sent)
              /\ req[p].write = "stored"
    /\ hist # <<>> =>
          /\ RaceEntry.present
          /\ RaceEntry.status = hist[Len(hist)].status
          /\ RaceEntry.detail = hist[Len(hist)].detail

\* Both requests missed; the first to write got the first answer of the
\* origin, the second got the changed one and wrote over the entry.
C37_Witness ==
    /\ \A p \in Procs : Done(p) /\ req[p].read = "miss"
    /\ Len(hist) = 2
    /\ hist[1].by # hist[2].by
    /\ hist[1].detail = "origin" /\ hist[2].detail = "origin2"
    /\ req[hist[1].by].detail = "origin" /\ req[hist[2].by].detail = "origin2"
    /\ RaceEntry.detail = "origin2"

\* The committed admissions of client c among the calls that sampled the
\* time t.
CommittedAt(c, t) == AdmittedIn(c, t, t, TRUE)

\* C38: a transaction commits only on the record it read, so that what it
\* writes is the count it would compute from the record as it stands at
\* the commit, and no decrement is lost: the committed admissions of one
\* client at one instant never exceed max_tokens, however the calls of the
\* replicas interleave.
C38_NoLostDecrement ==
    /\ [][\A p \in Procs :
            LET self == call[p].inst
                key == Key(self, call[p].client)
            IN  CommitStep(p) =>
                    call[p].tokens
                       = Consume(Refill(self, Hmget(key), call[p].now))]_vars
    /\ [](\A c \in Clients : \A t \in 0..MaxTime :
             Cardinality(CommittedAt(c, t)) <= MaxTokens)

\* The two replicas emptied a full bucket at one instant, one of them at
\* its second attempt, after the commit of the other had aborted its
\* first.
C38_Witness ==
    \E c \in Clients : \E i, j \in DOMAIN hist :
        /\ i # j /\ {i, j} \subseteq CommittedAt(c, 0)
        /\ Cardinality(CommittedAt(c, 0)) = MaxTokens
        /\ hist[j].attempts = 2
        /\ store[Key("A", c)].tokens = 0

\* C39: the last_refill of a bucket never decreases from one committed
\* update to the next, however the calls interleave.
C39_LastRefillMonotonic ==
    [][\A k \in Keys :
          store[k].present /\ store'[k].present =>
              store'[k].last_refill >= store[k].last_refill]_vars

\* The request of p was turned away by the authenticator.
Rejected(r) == r.phase = "done" /\ r.status = 401

\* C40: in the assembled gateway a request answered 401 has touched
\* nothing shared.  It was seen by the authenticator alone, asked no token
\* of the limiter, looked nothing up in the cache and wrote nothing to it,
\* carries the answer of the authenticator and no cached content, and the
\* step that answered it left the buckets and the cache as they were.
C40_RejectedTouchesNothing ==
    /\ [](\A p \in Procs :
            LET r == req[p] IN
            Rejected(r) =>
                /\ r.seen = <<"Auth">>
                /\ r.via = "none" /\ ~r.limited
                /\ r.read = "none" /\ r.write = "none"
                /\ ~r.origin /\ r.keys_deleted = 0
                /\ r.hdrs = JsonHeaders
                /\ r.detail \in { "Missing or invalid Authorization header",
                                  "Token expired", "Token invalid" })
    /\ [][\A p \in Procs :
            ~Rejected(req[p]) /\ Rejected(req'[p]) =>
                store' = store /\ cache' = cache]_vars

\* A request with an expired token for a path whose response is in the
\* cache, from a caller whose subject has a bucket, was answered 401.
C40_Witness ==
    \E p \in Procs :
        /\ Rejected(req[p]) /\ req[p].authorization = "expired"
        /\ req[p].method = "GET" /\ req[p].path = "/api"
        /\ \E k \in LiveKeys(cache, clock) : k[2] = "GET" /\ k[3] = "/api"
        /\ \E k \in Keys : store[k].present
====
